---- MODULE Spec2Model ----
(***************************************************************************)
(* Model of the airbender command line: hex input parsing, proof           *)
(* generation on the CPU and GPU backends, verification-key generation     *)
(* and proof verification.                                                 *)
(*                                                                         *)
(* Conventions                                                             *)
(*   - Option<T> is a sequence: None == <<>>, Some(v) == <<v>>.            *)
(*   - A u32 / usize number that may exceed 2^31 is a pair <<hi, lo>> of   *)
(*     16-bit-aligned halves: value = hi * 65536 + lo, 0 <= lo < 65536.    *)
(*   - A path is the sequence of the pieces whose concatenation is the     *)
(*     path string, e.g. <<"app", ".bin">> is "app.bin".                   *)
(*   - Text is a sequence of characters, each a one-character string.      *)
(***************************************************************************)
EXTENDS Integers, Sequences, FiniteSets, TLC

VARIABLES
    fs,        \* the filesystem: path -> file content (Absent when missing)
    cmd,       \* the command line of the running invocation
    pc,        \* position of the invocation in its handler
    result,    \* outcome of the invocation ("none" while it runs)
    log,       \* filesystem accesses and external calls so far, in order
    loc,       \* local variables of the running handler
    sources,   \* the QuasiUARTSource instances created so far
    calls,     \* external execution / proving calls: who got which source
    raw,       \* parse_input_words: the text read from the input file
    parsed     \* parse_input_words: its result

vars == <<fs, cmd, pc, result, log, loc, sources, calls, raw, parsed>>

None == <<>>
Some(v) == <<v>>

(***************************************************************************)
(* Numbers                                                                 *)
(***************************************************************************)
Half == 256 * 256

ToWide(n) == <<n \div Half, n % Half>>

WideZero == <<0, 0>>

\* u32::MAX
U32_MAX == <<Half - 1, Half - 1>>

\* u32::try_from(usize)
FitsU32(w) == w[1] < Half

(***************************************************************************)
(* input.rs: parse_input_words                                             *)
(***************************************************************************)
LowerHex == <<"0","1","2","3","4","5","6","7","8","9","a","b","c","d","e","f">>
UpperHex == <<"0","1","2","3","4","5","6","7","8","9","A","B","C","D","E","F">>

\* char::to_digit(16): the digit's value, or -1
to_digit(c) ==
    IF \E i \in 1..16 : LowerHex[i] = c
    THEN (CHOOSE i \in 1..16 : LowerHex[i] = c) - 1
    ELSE IF \E i \in 1..16 : UpperHex[i] = c
         THEN (CHOOSE i \in 1..16 : UpperHex[i] = c) - 1
         ELSE -1

\* char::is_whitespace
is_whitespace(c) == c \in {" ", "\n", "\t", "\r"}

\* The UTF-8 bytes of a character: "E9" stands for U+00E9, two bytes.
Utf8(c) == IF c = "E9" THEN <<"xC3", "xA9">> ELSE <<c>>

RECURSIVE as_bytes(_)
as_bytes(s) == IF s = <<>> THEN <<>> ELSE Utf8(Head(s)) \o as_bytes(Tail(s))

\* std::str::from_utf8 on a chunk of bytes: every lead byte is followed by
\* its continuation byte and no continuation byte stands alone.
from_utf8_ok(b) ==
    \A i \in 1..Len(b) :
        /\ b[i] = "xC3" => (i < Len(b) /\ b[i + 1] = "xA9")
        /\ b[i] = "xA9" => (i > 1 /\ b[i - 1] = "xC3")

Ok(v) == [ok |-> TRUE, val |-> v, err |-> "none"]
Err(e) == [ok |-> FALSE, val |-> <<>>, err |-> e]

\* The digit loop of u32::from_str_radix(_, 16): acc = acc * 16 + digit,
\* with the overflow check of a 32-bit accumulator.
RECURSIVE accumulate(_, _)
accumulate(digits, acc) ==
    IF digits = <<>> THEN Ok(acc)
    ELSE LET d == to_digit(Head(digits))
             lo == acc[2] * 16 + (IF d < 0 THEN 0 ELSE d)
             hi == acc[1] * 16 + (lo \div Half)
         IN IF d < 0 THEN Err("InvalidDigit")
            ELSE IF hi >= Half THEN Err("PosOverflow")
            ELSE accumulate(Tail(digits), <<hi, lo % Half>>)

\* u32::from_str_radix(src, 16): an optional leading "+" is skipped; "-" is
\* not a sign for an unsigned type and is read as a digit.
from_str_radix(src) ==
    IF src = <<>> THEN Err("Empty")
    ELSE IF Len(src) = 1 /\ src[1] \in {"+", "-"} THEN Err("InvalidDigit")
    ELSE accumulate(IF src[1] = "+" THEN Tail(src) ELSE src, WideZero)

\* str::strip_prefix("0x")
strip_prefix_0x(s) ==
    IF Len(s) >= 2 /\ s[1] = "0" /\ s[2] = "x" THEN SubSeq(s, 3, Len(s)) ELSE s

ChunkLen == 8

\* The loop over hex.as_bytes().chunks(8): the first failing chunk ends it.
RECURSIVE parse_chunks(_, _)
parse_chunks(bytes, words) ==
    IF bytes = <<>> THEN Ok(words)
    ELSE LET n == IF Len(bytes) < ChunkLen THEN Len(bytes) ELSE ChunkLen
             chunk == SubSeq(bytes, 1, n)
             word == from_str_radix(chunk)
         IN IF ~from_utf8_ok(chunk) THEN Err("InvalidFormat")
            ELSE IF ~word.ok THEN Err("InvalidFormat")
            ELSE parse_chunks(SubSeq(bytes, n + 1, Len(bytes)), Append(words, word.val))

\* parse_input_words once the file has been read into text
parse_text(text) ==
    LET hex == strip_prefix_0x(SelectSeq(text, LAMBDA c : ~is_whitespace(c)))
        bytes == as_bytes(hex)
    IN IF hex = <<>> THEN Ok(<<>>)
       ELSE IF Len(bytes) % ChunkLen # 0 THEN Err("InvalidFormat")
       ELSE parse_chunks(bytes, <<>>)

(***************************************************************************)
(* Paths and files                                                         *)
(***************************************************************************)
\* Path::to_str fails on a path that is not valid UTF-8
is_utf8(path) == \A i \in 1..Len(path) : path[i] # "xFF"

\* prover.rs / vk.rs: strip_bin_suffix, once the path is known to be UTF-8
strip_bin_suffix(path) ==
    IF path # <<>> /\ path[Len(path)] = ".bin"
    THEN SubSeq(path, 1, Len(path) - 1)
    ELSE path

\* format!("{base_path}.bin"), format!("{base_path}.text")
bin_path_of(base) == Append(base, ".bin")
text_path_of(base) == Append(base, ".text")

File(kind, val) == [kind |-> kind, val |-> val]
Absent == File("absent", <<>>)
OldOutput == File("old", <<>>)
Partial == File("partial", <<>>)
Garbage == File("garbage", <<>>)

SameFile(a, b) == a.kind = b.kind /\ a.val = b.val

\* program images: <<content id, length in bytes>>
BinA == File("bytes", <<"binA", 8>>)
BinB == File("bytes", <<"binB", 12>>)
BinOdd == File("bytes", <<"binOdd", 6>>)
TextA == File("bytes", <<"textA", 8>>)
ElfC == File("bytes", <<"elfC", 16>>)

InPath == <<"in">>
ProofPath == <<"proof">>
VkPath == <<"vk">>

AppArgs == {<<"app">>, <<"app", ".bin">>, <<"app", ".elf">>, <<"xFF">>}

AllPaths ==
    AppArgs \cup {bin_path_of(strip_bin_suffix(a)) : a \in AppArgs}
            \cup {text_path_of(strip_bin_suffix(a)) : a \in AppArgs}
            \cup {InPath, ProofPath, VkPath}

NoFiles == [p \in AllPaths |-> Absent]

\* The program files found on disk when a command starts.
ProgramFiles(bin, text, old) ==
    [p \in AllPaths |->
        IF p = <<"app", ".bin">> THEN bin
        ELSE IF p = <<"app", ".text">> THEN text
        ELSE IF p = <<"app", ".elf">> THEN ElfC
        ELSE IF p = <<"app", ".elf", ".bin">> THEN BinB
        ELSE IF p \in {ProofPath, VkPath} THEN old
        ELSE Absent]

FsConfigs ==
    { ProgramFiles(BinA, TextA, OldOutput),
      ProgramFiles(Absent, TextA, OldOutput),
      ProgramFiles(BinA, Absent, OldOutput),
      ProgramFiles(BinOdd, TextA, Absent),
      NoFiles }

\* input files: "", "0xDEADBEEF", two words with white space, "ABC"
TextEmpty == <<>>
TextDead == <<"0", "x", "D", "E", "A", "D", "B", "E", "E", "F">>
TextTwo == <<"0", "0", "0", "0", "0", "0", "0", "1", "\n",
             "0", "0", "0", "0", "0", "0", "0", "2">>
TextABC == <<"A", "B", "C">>

InputFiles ==
    {Absent} \cup {File("text", t) : t \in {TextEmpty, TextDead, TextTwo, TextABC}}

(***************************************************************************)
(* Program constants                                                       *)
(***************************************************************************)
DEFAULT_RAM_BOUND_BYTES == 1073741824
DEFAULT_CPU_CYCLE_BOUND == U32_MAX
\* ROM_BYTE_SIZE, INITIAL_TIMESTAMP and TIMESTAMP_STEP are imported from the
\* riscv_transpiler crate (prover.rs:8, sim_transpiler.rs:3); the values below
\* are that crate's, and the properties use them only through their names.
ROM_BYTE_SIZE == 2097152
INITIAL_TIMESTAMP == 4
TIMESTAMP_STEP == 4

(***************************************************************************)
(* Bounds of the model                                                     *)
(***************************************************************************)
\* explicit --cycles values and JIT cycle counts range over 0..MaxCycles
MaxCycles == 1

Levels == {"Base", "RecursionUnrolled", "RecursionUnified"}
Backends == {"Cpu", "Gpu"}
CycleArgs == {None} \cup {Some(ToWide(n)) : n \in 0..MaxCycles}
RamArgs == {None, Some(ROM_BYTE_SIZE - 1), Some(ROM_BYTE_SIZE)}
ThreadArgs == {None, Some(2)}
JitTimestamps == {INITIAL_TIMESTAMP + TIMESTAMP_STEP * n : n \in 0..MaxCycles}

(***************************************************************************)
(* State of one invocation                                                 *)
(***************************************************************************)
NoCmd ==
    [name |-> "none", entry |-> "none", app_bin |-> <<>>, input |-> <<>>,
     output |-> <<>>, backend |-> "none", threads |-> None, cycles |-> None,
     ram_bound |-> None, level |-> "none", proof |-> <<>>, vk |-> <<>>,
     text_path |-> None]

NoLoc ==
    [out0 |-> Absent, input_words |-> <<>>, base_path |-> <<>>,
     binary |-> None, text |-> None, cycles_bound |-> None,
     ram_bound |-> None, threads |-> None, artifact |-> None,
     encoded |-> None, app_bin_hash |-> None, program |-> None,
     proof |-> None, vk_file |-> None, check |-> None, outcome |-> None]

Event(op, path) == [op |-> op, path |-> path]

FsOps == {"exists", "read", "write"}

Fail(e) == pc' = "done" /\ result' = e
Goto(p) == pc' = p /\ result' = "none"

Init ==
    /\ fs = NoFiles
    /\ cmd = NoCmd
    /\ pc = "idle"
    /\ result = "none"
    /\ log = <<>>
    /\ loc = NoLoc
    /\ sources = <<>>
    /\ calls = <<>>
    /\ raw = <<>>
    /\ parsed = Ok(<<>>)

\* A command starts in a fresh process, on the files the user has prepared.
Begin(c, files, first) ==
    /\ cmd' = c
    /\ fs' = files
    /\ pc' = first
    /\ result' = "none"
    /\ log' = <<>>
    /\ loc' = [NoLoc EXCEPT !.out0 = IF c.output \in AllPaths THEN files[c.output]
                                      ELSE Absent]
    /\ sources' = <<>>
    /\ calls' = <<>>
    /\ raw' = <<>>
    /\ parsed' = Ok(<<>>)

\* main returns and the process exits: nothing of it is kept.
Exit ==
    /\ pc = "done"
    /\ pc' = "idle"
    /\ fs' = NoFiles
    /\ cmd' = NoCmd
    /\ result' = "none"
    /\ log' = <<>>
    /\ loc' = NoLoc
    /\ sources' = <<>>
    /\ calls' = <<>>
    /\ raw' = <<>>
    /\ parsed' = Ok(<<>>)

(***************************************************************************)
(* QuasiUARTSource and the external execution / proving routines           *)
(***************************************************************************)
\* QuasiUARTSource::new_with_reads(words)
new_with_reads(words) == [initial |-> words, rest |-> words]

\* An external routine is handed source number src and reads k words of it.
Consume(srcs, src, k) ==
    [srcs EXCEPT ![src].rest = SubSeq(@, k + 1, Len(@))]

\* returned is what the routine reports back: the final timestamp of a JIT
\* run, the cycle count of the GPU prover.
Call(fn, srcs, src, cycles, ram, returned) ==
    [fn |-> fn, src |-> src, received |-> srcs[src].rest,
     cycles |-> cycles, ram |-> ram, returned |-> returned]

(***************************************************************************)
(* sim_transpiler.rs: run_transpiler                                       *)
(***************************************************************************)
IsExtension(piece) == piece \in {".bin", ".text", ".elf"}

\* derive_text_path: PathBuf::set_extension("text")
derive_text_path(bin_path) ==
    IF bin_path # <<>> /\ IsExtension(bin_path[Len(bin_path)])
    THEN Append(SubSeq(bin_path, 1, Len(bin_path) - 1), ".text")
    ELSE Append(bin_path, ".text")

\* read_u32_words: the file must hold whole 32-bit words
read_u32_words_ok(file) == file.kind = "bytes" /\ file.val[2] % 4 = 0

jit_cycles_bound_exclusive(cycles) ==
    IF FitsU32(cycles) /\ cycles # U32_MAX THEN Some(cycles) ELSE None

\* u32::try_from(cycles): a bound that does not fit is dropped with a warning
jit_cycles_bound(cycles) == IF FitsU32(cycles) THEN Some(cycles) ELSE None

\* ((state.timestamp - INITIAL_TIMESTAMP) / TIMESTAMP_STEP) as usize
cycles_executed_of(timestamp) ==
    ToWide((timestamp - INITIAL_TIMESTAMP) \div TIMESTAMP_STEP)

\* The whole of run_transpiler. ts is the timestamp the JIT engine ends at
\* and k the number of input words it reads from the source it is handed.
\* The result carries the function's own effects: the filesystem accesses
\* and calls it made (events), the sources and the calls after it.
run_transpiler(files, srcs, cls, bin_path, input_words, cycles, text_path_opt, ts, k) ==
    LET text_path == IF text_path_opt = None THEN derive_text_path(bin_path)
                     ELSE text_path_opt[1]
        e1 == <<Event("exists", bin_path)>>
        e2 == Append(e1, Event("exists", text_path))
        e3 == Append(e2, Event("read", bin_path))
        e4 == Append(e3, Event("read", text_path))
        e5 == (IF FitsU32(cycles) THEN e4 ELSE Append(e4, Event("warn", <<>>)))
                  \o <<Event("jit_run", <<>>)>>
        srcs1 == Append(srcs, new_with_reads(input_words))
        src == Len(srcs1)
        fail(e, ev) == [ok |-> FALSE, err |-> e, events |-> ev, sources |-> srcs,
                        calls |-> cls, cycles_executed |-> WideZero,
                        reached_end |-> FALSE]
    IN IF files[bin_path].kind = "absent" THEN fail("BinaryNotFound", e1)
       ELSE IF files[text_path].kind = "absent" THEN fail("TextNotFound", e2)
       ELSE IF ~read_u32_words_ok(files[bin_path]) THEN fail("LengthNotMultipleOf4", e3)
       ELSE IF ~read_u32_words_ok(files[text_path]) THEN fail("LengthNotMultipleOf4", e4)
       ELSE [ok |-> TRUE, err |-> "none", events |-> e5,
             sources |-> Consume(srcs1, src, k),
             calls |-> Append(cls, Call("jit", srcs1, src, jit_cycles_bound(cycles), None, ts)),
             cycles_executed |-> cycles_executed_of(ts),
             reached_end |-> TRUE]

(***************************************************************************)
(* main.rs: the Prove command                                              *)
(***************************************************************************)
ProveCmd(app, input, backend, threads, cycles, ram, level) ==
    [NoCmd EXCEPT !.name = "prove", !.entry = "cli", !.app_bin = app,
                  !.input = InPath, !.output = ProofPath, !.backend = backend,
                  !.threads = threads, !.cycles = cycles, !.ram_bound = ram,
                  !.level = level]

StartProve ==
    /\ pc = "idle"
    /\ \E app \in AppArgs, files \in FsConfigs, input \in InputFiles,
          backend \in Backends, threads \in ThreadArgs, cycles \in CycleArgs,
          ram \in RamArgs, level \in Levels :
           Begin(ProveCmd(app, input, backend, threads, cycles, ram, level),
                 [files EXCEPT ![InPath] = input], "main_parse_input")

\* main.rs:52 and main.rs:73, the whole of input::parse_input_words
MainParseInput ==
    /\ pc = "main_parse_input"
    /\ log' = Append(log, Event("read", cmd.input))
    /\ IF fs[cmd.input].kind # "text"
       THEN /\ Fail("ReadInputFailed")
            /\ UNCHANGED <<raw, parsed, loc>>
       ELSE /\ raw' = fs[cmd.input].val
            /\ parsed' = parse_text(raw')
            /\ IF parsed'.ok
               THEN /\ Goto(cmd.name)
                    /\ loc' = [loc EXCEPT !.input_words = parsed'.val]
               ELSE /\ Fail("InvalidFormat")
                    /\ loc' = loc
    /\ UNCHANGED <<fs, cmd, sources, calls>>

(***************************************************************************)
(* main.rs: the RunTranspiler command                                      *)
(***************************************************************************)
\* sim.rs: DEFAULT_CYCLES = 90_000_000_000 = 1373291 * 2^16 + 1024
DEFAULT_CYCLES == <<1373291, 1024>>

\* --cycles: absent, 0, 1, 2^32 - 1, 2^32
TranspilerCycleArgs ==
    {None, Some(WideZero), Some(ToWide(1)), Some(U32_MAX), Some(<<Half, 0>>)}

TextPathArgs == {None, Some(<<"app", ".text">>), Some(<<"xFF", ".text">>)}

RunTranspilerCmd(app, cycles, text_path) ==
    [NoCmd EXCEPT !.name = "run_transpiler", !.entry = "cli", !.app_bin = app,
                  !.input = InPath, !.cycles = cycles, !.text_path = text_path]

\* main.rs: the RunTranspiler command, lines 46-51
StartRunTranspiler ==
    /\ pc = "idle"
    /\ \E app \in AppArgs, files \in FsConfigs, input \in InputFiles,
          cycles \in TranspilerCycleArgs, text_path \in TextPathArgs :
           Begin(RunTranspilerCmd(app, cycles, text_path),
                 [files EXCEPT ![InPath] = input], "main_parse_input")

\* main.rs:53: cycles.unwrap_or(sim::DEFAULT_CYCLES)
cycle_limit(cycles) == IF cycles = None THEN DEFAULT_CYCLES ELSE cycles[1]

\* main.rs, lines 53-61: the call of run_transpiler and the report
MainRunTranspiler ==
    /\ pc = "run_transpiler"
    /\ \E ts \in JitTimestamps, k \in 0..Len(loc.input_words) :
         LET outcome == run_transpiler(fs, sources, calls, cmd.app_bin,
                                       loc.input_words, cycle_limit(cmd.cycles),
                                       cmd.text_path, ts, k)
         IN /\ log' = log \o outcome.events
            /\ sources' = outcome.sources
            /\ calls' = outcome.calls
            /\ IF outcome.ok
               THEN /\ Fail("Ok")
                    /\ loc' = [loc EXCEPT !.outcome =
                          Some([cycles_executed |-> outcome.cycles_executed,
                                reached_end |-> outcome.reached_end])]
               ELSE /\ Fail(outcome.err)
                    /\ loc' = loc
    /\ UNCHANGED <<fs, cmd, raw, parsed>>

(***************************************************************************)
(* prover.rs                                                               *)
(***************************************************************************)
\* prove: the dispatch on the backend
prove ==
    /\ pc = "prove"
    /\ Goto(IF cmd.backend = "Gpu" THEN "prove_gpu" ELSE "prove_cpu")
    /\ UNCHANGED <<fs, cmd, log, loc, sources, calls, raw, parsed>>

\* the proof value a proving routine returns
Proof(by, level, program, input, cycles) ==
    [by |-> by, level |-> level, program |-> program, input |-> input,
     cycles |-> cycles]

\* bincode::serde::encode_to_vec of a proof
encode_proof(proof) == File("bincode", <<"UnrolledProgramProof", proof>>)

WriteOutcomes == {"written", "failed_untouched", "failed_partial"}

\* fs::write(output, encoded): creates or truncates the file, then writes
fs_write(files, path, encoded, how) ==
    [files EXCEPT ![path] = IF how = "written" THEN encoded
                            ELSE IF how = "failed_partial" THEN Partial
                            ELSE @]

\* the output file is created before the value is encoded
EncodeAndWrite_create_first(encoded, encodes, how) ==
    IF ~encodes
    THEN /\ Fail("EncodeFailed")
         /\ log' = log \o <<Event("write", cmd.output), Event("encode", <<>>)>>
         /\ fs' = fs_write(fs, cmd.output, encoded, "failed_partial")
         /\ loc' = loc
    ELSE /\ log' = log \o <<Event("write", cmd.output), Event("encode", <<>>)>>
         /\ loc' = [loc EXCEPT !.encoded = Some(encoded)]
         /\ fs' = fs_write(fs, cmd.output, encoded, how)
         /\ Fail(IF how = "written" THEN "Ok" ELSE "WriteFailed")

\* the tail shared by prove_gpu, prove_cpu and the VK generators: encode the
\* value in memory, then write the output file
EncodeAndWrite(encoded, encodes, how) ==
    IF ~encodes
    THEN /\ Fail("EncodeFailed")
         /\ log' = Append(log, Event("encode", <<>>))
         /\ UNCHANGED <<fs, loc>>
    ELSE /\ log' = log \o <<Event("encode", <<>>), Event("write", cmd.output)>>
         /\ loc' = [loc EXCEPT !.encoded = Some(encoded)]
         /\ fs' = fs_write(fs, cmd.output, encoded, how)
         /\ Fail(IF how = "written" THEN "Ok" ELSE "WriteFailed")

CpuLevelSupported_unrolled(level) == level \in {"Base", "RecursionUnrolled"}

\* prove_cpu, lines 75-77
CpuLevelSupported(level) == level = "Base"

CpuCheckLevel ==
    /\ pc = "prove_cpu"
    /\ IF CpuLevelSupported(cmd.level) THEN Goto("cpu_paths")
       ELSE Fail("UnsupportedCombination")
    /\ UNCHANGED <<fs, cmd, log, loc, sources, calls, raw, parsed>>

\* prove_cpu, lines 79-87
CpuCheckPaths ==
    /\ pc = "cpu_paths"
    /\ LET base == strip_bin_suffix(cmd.app_bin)
           bin == bin_path_of(base)
           text == text_path_of(base)
       IN IF ~is_utf8(cmd.app_bin)
          THEN Fail("NonUtf8Path") /\ UNCHANGED <<log, loc>>
          ELSE /\ loc' = [loc EXCEPT !.base_path = base]
               /\ IF fs[bin].kind = "absent"
                  THEN /\ Fail("BinaryNotFound")
                       /\ log' = Append(log, Event("exists", bin))
                  ELSE /\ log' = log \o <<Event("exists", bin), Event("exists", text)>>
                       /\ IF fs[text].kind = "absent" THEN Fail("TextNotFound")
                          ELSE Goto("cpu_read")
    /\ UNCHANGED <<fs, cmd, sources, calls, raw, parsed>>

\* prove_cpu, lines 89-90
CpuReadBinaries ==
    /\ pc = "cpu_read"
    /\ LET bin == bin_path_of(loc.base_path)
           text == text_path_of(loc.base_path)
       IN /\ log' = log \o <<Event("read", bin), Event("read", text)>>
          /\ loc' = [loc EXCEPT !.binary = Some(fs[bin].val),
                                !.text = Some(fs[text].val)]
    /\ Goto("cpu_cycles")
    /\ UNCHANGED <<fs, cmd, sources, calls, raw, parsed>>

\* the cycle-estimation run is made whether or not --cycles is given
CpuCyclesBound_always_estimates ==
    /\ pc = "cpu_cycles"
    /\ \E ts \in JitTimestamps, k \in 0..Len(loc.input_words) :
         LET bin == bin_path_of(loc.base_path)
             text == text_path_of(loc.base_path)
             outcome == run_transpiler(fs, sources, calls, bin, loc.input_words,
                                       DEFAULT_CPU_CYCLE_BOUND, Some(text), ts, k)
         IN /\ log' = log \o outcome.events
            /\ sources' = outcome.sources
            /\ calls' = outcome.calls
            /\ IF outcome.ok
               THEN /\ loc' = [loc EXCEPT !.cycles_bound =
                                   IF cmd.cycles # None THEN cmd.cycles
                                   ELSE Some(outcome.cycles_executed)]
                    /\ Goto("cpu_check_cycles")
               ELSE /\ Fail(outcome.err)
                    /\ loc' = loc
    /\ UNCHANGED <<fs, cmd, raw, parsed>>

\* prove_cpu, lines 92-104
CpuCyclesBound ==
    /\ pc = "cpu_cycles"
    /\ IF cmd.cycles # None
       THEN /\ loc' = [loc EXCEPT !.cycles_bound = cmd.cycles]
            /\ Goto("cpu_check_cycles")
            /\ UNCHANGED <<log, sources, calls>>
       ELSE \E ts \in JitTimestamps, k \in 0..Len(loc.input_words) :
              LET bin == bin_path_of(loc.base_path)
                  text == text_path_of(loc.base_path)
                  outcome == run_transpiler(fs, sources, calls, bin, loc.input_words,
                                            DEFAULT_CPU_CYCLE_BOUND, Some(text), ts, k)
              IN /\ log' = log \o outcome.events
                 /\ sources' = outcome.sources
                 /\ calls' = outcome.calls
                 /\ IF outcome.ok
                    THEN /\ loc' = [loc EXCEPT !.cycles_bound = Some(outcome.cycles_executed)]
                         /\ Goto("cpu_check_cycles")
                    ELSE /\ Fail(outcome.err)
                         /\ loc' = loc
    /\ UNCHANGED <<fs, cmd, raw, parsed>>

CyclesBoundOk_any(bound) == TRUE

\* prove_cpu, lines 106-108
CyclesBoundOk(bound) == bound # WideZero

CpuCheckCycles ==
    /\ pc = "cpu_check_cycles"
    /\ IF CyclesBoundOk(loc.cycles_bound[1]) THEN Goto("cpu_check_ram")
       ELSE Fail("InvalidCyclesBound")
    /\ UNCHANGED <<fs, cmd, log, loc, sources, calls, raw, parsed>>

\* prove_cpu, line 110: ram_bound.unwrap_or(DEFAULT_RAM_BOUND_BYTES)
ram_bound_or_default(ram) == IF ram = None THEN DEFAULT_RAM_BOUND_BYTES ELSE ram[1]

RamBoundOk_strict(ram) == ram > ROM_BYTE_SIZE

\* prove_cpu, line 111
RamBoundOk(ram) == ~(ram < ROM_BYTE_SIZE)

\* prove_cpu, lines 110-116
CpuCheckRam ==
    /\ pc = "cpu_check_ram"
    /\ LET ram == ram_bound_or_default(cmd.ram_bound)
       IN /\ loc' = [loc EXCEPT !.ram_bound = Some(ram)]
          /\ IF RamBoundOk(ram) THEN Goto("cpu_prove") ELSE Fail("InvalidRamBound")
    /\ UNCHANGED <<fs, cmd, log, sources, calls, raw, parsed>>

CpuOracle_reused(srcs, input_words) ==
    IF srcs = <<>> THEN Append(srcs, new_with_reads(input_words)) ELSE srcs

\* the source the CPU proving routine is handed: a new one, line 125
CpuOracle(srcs, input_words) == Append(srcs, new_with_reads(input_words))

\* prove_cpu, lines 118-137
CpuProve ==
    /\ pc = "cpu_prove"
    /\ \E k \in 0..Len(loc.input_words), panics \in BOOLEAN :
         LET srcs1 == CpuOracle(sources, loc.input_words)
             src == Len(srcs1)
         IN /\ sources' = Consume(srcs1, src, IF k > Len(srcs1[src].rest)
                                               THEN Len(srcs1[src].rest) ELSE k)
            /\ calls' = Append(calls, Call("cpu_prove", srcs1, src,
                                           loc.cycles_bound, loc.ram_bound, 0))
            /\ log' = Append(log, Event("cpu_prove", <<>>))
            /\ IF panics
               THEN Fail("Panic") /\ loc' = loc
               ELSE /\ Goto("cpu_write")
                    /\ loc' = [loc EXCEPT
                          !.threads = cmd.threads,
                          !.artifact = Some(Proof("cpu", "Base",
                                                  <<loc.binary[1], loc.text[1]>>,
                                                  loc.input_words,
                                                  loc.cycles_bound[1]))]
    /\ UNCHANGED <<fs, cmd, raw, parsed>>

\* prove_cpu, lines 139-143
CpuEncodeWrite ==
    /\ pc = "cpu_write"
    /\ \E encodes \in BOOLEAN, how \in WriteOutcomes :
         EncodeAndWrite(encode_proof(loc.artifact[1]), encodes, how)
    /\ UNCHANGED <<cmd, sources, calls, raw, parsed>>

\* the cycle and RAM bounds are checked as prove_cpu checks them
GpuCreateProver_checks_bounds ==
    /\ pc = "prove_gpu"
    /\ \E panics \in BOOLEAN :
         IF ~is_utf8(cmd.app_bin)
         THEN Fail("NonUtf8Path") /\ UNCHANGED <<log, loc>>
         ELSE IF cmd.cycles = Some(WideZero)
         THEN Fail("InvalidCyclesBound") /\ UNCHANGED <<log, loc>>
         ELSE IF ~RamBoundOk(ram_bound_or_default(cmd.ram_bound))
         THEN Fail("InvalidRamBound") /\ UNCHANGED <<log, loc>>
         ELSE /\ log' = Append(log, Event("gpu_new", strip_bin_suffix(cmd.app_bin)))
              /\ IF panics
                 THEN Fail("Panic") /\ loc' = loc
                 ELSE /\ Goto("gpu_prove")
                      /\ loc' = [loc EXCEPT !.base_path = strip_bin_suffix(cmd.app_bin),
                                            !.threads = cmd.threads]
    /\ UNCHANGED <<fs, cmd, sources, calls, raw, parsed>>

\* prove_gpu, line 50: create_unrolled_prover, lines 157-173
GpuCreateProver ==
    /\ pc = "prove_gpu"
    /\ \E panics \in BOOLEAN :
         IF ~is_utf8(cmd.app_bin)
         THEN Fail("NonUtf8Path") /\ UNCHANGED <<log, loc>>
         ELSE /\ log' = Append(log, Event("gpu_new", strip_bin_suffix(cmd.app_bin)))
              /\ IF panics
                 THEN Fail("Panic") /\ loc' = loc
                 ELSE /\ Goto("gpu_prove")
                      /\ loc' = [loc EXCEPT !.base_path = strip_bin_suffix(cmd.app_bin),
                                            !.threads = cmd.threads]
    /\ UNCHANGED <<fs, cmd, sources, calls, raw, parsed>>

\* prove_gpu, lines 51-57
GpuProve ==
    /\ pc = "gpu_prove"
    /\ \E k \in 0..Len(loc.input_words), panics \in BOOLEAN, n \in 0..MaxCycles :
         LET srcs1 == Append(sources, new_with_reads(loc.input_words))
             src == Len(srcs1)
         IN /\ sources' = Consume(srcs1, src, k)
            /\ calls' = Append(calls, Call("gpu_prove", srcs1, src, None, None, n))
            /\ log' = Append(log, Event("gpu_prove", <<>>))
            /\ IF panics
               THEN Fail("Panic") /\ loc' = loc
               ELSE /\ Goto("gpu_write")
                    /\ loc' = [loc EXCEPT
                          !.artifact = Some(Proof("gpu", cmd.level, loc.base_path,
                                                  loc.input_words, ToWide(n)))]
    /\ UNCHANGED <<fs, cmd, raw, parsed>>

\* prove_gpu, lines 59-63
GpuEncodeWrite ==
    /\ pc = "gpu_write"
    /\ \E encodes \in BOOLEAN, how \in WriteOutcomes :
         EncodeAndWrite(encode_proof(loc.artifact[1]), encodes, how)
    /\ UNCHANGED <<cmd, sources, calls, raw, parsed>>

(***************************************************************************)
(* vk.rs: generate_vk                                                      *)
(***************************************************************************)
StdIsa == "IMStandardIsaConfigWithUnsignedMulDiv"
DelegationIsa == "IWithoutByteAccessIsaConfigWithDelegation"

\* the embedded recursion programs, as <<binary, text>>
RECURSION_UNIFIED == <<"RECURSION_UNIFIED_BIN", "RECURSION_UNIFIED_TXT">>
RECURSION_UNROLLED == <<"RECURSION_UNROLLED_BIN", "RECURSION_UNROLLED_TXT">>

\* sha3::Keccak256::digest of a file's bytes
Keccak256(bytes) == <<"keccak256", bytes[1]>>

\* compute_setup_for_machine_configuration::<M>(binary, text) and
\* compute_unified_setup_for_machine_configuration::<M>(binary, text)
Setup(routine, machine, program) ==
    [routine |-> routine, machine |-> machine, binary |-> program[1],
     text |-> program[2]]

\* get_unrolled_circuits_artifacts_for_machine_type::<M>(binary_u32) and
\* get_unified_circuit_artifact_for_machine_type::<M>(binary_u32)
Layouts(routine, machine, program) ==
    [routine |-> routine, machine |-> machine, binary |-> program[1]]

UnifiedVkFile(hash, setup, layouts) ==
    [app_bin_hash |-> hash, unified_setup |-> setup, unified_layouts |-> layouts]

UnrolledVkFile(hash, setup, layouts) ==
    [app_bin_hash |-> hash, setup |-> setup, compiled_layouts |-> layouts]

\* What bincode writes for either VK struct: the three field values in
\* declaration order; neither the struct's name nor the fields' names.
VkWire == "[u8;32],UnrolledProgramSetup,CompiledCircuitsSet"

encode_unified_vk(vk) ==
    File("bincode", <<VkWire, vk.app_bin_hash, vk.unified_setup, vk.unified_layouts>>)

encode_unrolled_vk(vk) ==
    File("bincode", <<VkWire, vk.app_bin_hash, vk.setup, vk.compiled_layouts>>)

\* generate_unified_vk, lines 44-54: the VK of the embedded unified program
unified_vk(hash) ==
    UnifiedVkFile(hash,
                  Setup("unified", DelegationIsa, RECURSION_UNIFIED),
                  Layouts("unified", DelegationIsa, RECURSION_UNIFIED))

\* generate_unrolled_vk, lines 99-121: the setup and layouts for the level
unrolled_vk(hash, level, program) ==
    LET machine == IF level = "Base" THEN StdIsa ELSE DelegationIsa
    IN UnrolledVkFile(hash, Setup("unrolled", machine, program),
                      Layouts("unrolled", machine, program))

GenerateVkCmd(app, level, entry) ==
    [NoCmd EXCEPT !.name = "generate_vk", !.entry = entry, !.app_bin = app,
                  !.output = VkPath, !.level = level]

\* main.rs: the GenerateVk command, lines 90-101
StartGenerateVk ==
    /\ pc = "idle"
    /\ \E app \in AppArgs, files \in FsConfigs, level \in Levels :
         Begin(GenerateVkCmd(app, level, "cli"), files, "generate_vk")

\* generate_unrolled_vk called on its own, with any level its signature takes
StartGenerateUnrolledVk ==
    /\ pc = "idle"
    /\ \E app \in AppArgs, files \in FsConfigs, level \in Levels :
         Begin(GenerateVkCmd(app, level, "direct"), files, "generate_unrolled_vk")

\* every level is sent to generate_unrolled_vk
generate_vk_all_unrolled ==
    /\ pc = "generate_vk"
    /\ Goto("generate_unrolled_vk")
    /\ UNCHANGED <<fs, cmd, log, loc, sources, calls, raw, parsed>>

\* generate_vk, lines 30-37
generate_vk ==
    /\ pc = "generate_vk"
    /\ Goto(IF cmd.level = "RecursionUnified" THEN "generate_unified_vk"
            ELSE "generate_unrolled_vk")
    /\ UNCHANGED <<fs, cmd, log, loc, sources, calls, raw, parsed>>

\* generate_unified_vk, lines 40-42
UnifiedReadAndHash ==
    /\ pc = "generate_unified_vk"
    /\ IF fs[cmd.app_bin].kind = "absent"
       THEN /\ Fail("ReadFailed")
            /\ log' = Append(log, Event("read", cmd.app_bin))
            /\ loc' = loc
       ELSE /\ Goto("unified_setup")
            /\ log' = log \o <<Event("read", cmd.app_bin), Event("keccak", cmd.app_bin)>>
            /\ loc' = [loc EXCEPT !.app_bin_hash = Some(Keccak256(fs[cmd.app_bin].val))]
    /\ UNCHANGED <<fs, cmd, sources, calls, raw, parsed>>

\* generate_unified_vk, lines 44-60
UnifiedSetup ==
    /\ pc = "unified_setup"
    /\ \E panics \in BOOLEAN :
         /\ log' = log \o <<Event("setup", <<>>), Event("layouts", <<>>)>>
         /\ IF panics THEN Fail("Panic") /\ loc' = loc
            ELSE /\ Goto("unified_write")
                 /\ loc' = [loc EXCEPT !.program = Some(RECURSION_UNIFIED),
                                       !.artifact = Some(unified_vk(loc.app_bin_hash[1]))]
    /\ UNCHANGED <<fs, cmd, sources, calls, raw, parsed>>

\* generate_unified_vk, lines 61-65
UnifiedEncodeWrite ==
    /\ pc = "unified_write"
    /\ \E encodes \in BOOLEAN, how \in WriteOutcomes :
         EncodeAndWrite(encode_unified_vk(loc.artifact[1]), encodes, how)
    /\ UNCHANGED <<cmd, sources, calls, raw, parsed>>

\* the file at the path argument is hashed, as generate_unified_vk does
UnrolledReadAndHash_path_as_given ==
    /\ pc = "generate_unrolled_vk"
    /\ LET base == strip_bin_suffix(cmd.app_bin)
       IN IF ~is_utf8(cmd.app_bin)
          THEN Fail("NonUtf8Path") /\ UNCHANGED <<log, loc>>
          ELSE IF fs[cmd.app_bin].kind = "absent"
          THEN /\ Fail("ReadFailed")
               /\ log' = Append(log, Event("read", cmd.app_bin))
               /\ loc' = [loc EXCEPT !.base_path = base]
          ELSE /\ Goto("unrolled_program")
               /\ log' = log \o <<Event("read", cmd.app_bin),
                                  Event("keccak", cmd.app_bin)>>
               /\ loc' = [loc EXCEPT !.base_path = base,
                                     !.app_bin_hash = Some(Keccak256(fs[cmd.app_bin].val))]
    /\ UNCHANGED <<fs, cmd, sources, calls, raw, parsed>>

\* generate_unrolled_vk, lines 73-79
UnrolledReadAndHash ==
    /\ pc = "generate_unrolled_vk"
    /\ LET base == strip_bin_suffix(cmd.app_bin)
           bin == bin_path_of(base)
       IN IF ~is_utf8(cmd.app_bin)
          THEN Fail("NonUtf8Path") /\ UNCHANGED <<log, loc>>
          ELSE IF fs[bin].kind = "absent"
          THEN /\ Fail("ReadFailed")
               /\ log' = Append(log, Event("read", bin))
               /\ loc' = [loc EXCEPT !.base_path = base]
          ELSE /\ Goto("unrolled_program")
               /\ log' = log \o <<Event("read", bin), Event("keccak", bin)>>
               /\ loc' = [loc EXCEPT !.base_path = base,
                                     !.app_bin_hash = Some(Keccak256(fs[bin].val))]
    /\ UNCHANGED <<fs, cmd, sources, calls, raw, parsed>>

\* the first match sends every level but RecursionUnrolled to the Base arm
UnrolledLoadProgram_base_arm ==
    /\ pc = "unrolled_program"
    /\ LET bin == bin_path_of(loc.base_path)
           text == text_path_of(loc.base_path)
       IN IF cmd.level # "RecursionUnrolled"
          THEN /\ log' = log \o <<Event("read", bin), Event("read", text)>>
               /\ IF fs[text].kind = "absent" THEN Fail("Panic") /\ loc' = loc
                  ELSE /\ Goto("unrolled_setup")
                       /\ loc' = [loc EXCEPT
                             !.program = Some(<<fs[bin].val[1], fs[text].val[1]>>)]
          ELSE /\ Goto("unrolled_setup")
               /\ loc' = [loc EXCEPT !.program = Some(RECURSION_UNROLLED)]
               /\ log' = log
    /\ UNCHANGED <<fs, cmd, sources, calls, raw, parsed>>

\* generate_unrolled_vk, lines 81-97. read_and_pad_binary returns no
\* Result: on a file it cannot read it can only panic.
UnrolledLoadProgram ==
    /\ pc = "unrolled_program"
    /\ LET bin == bin_path_of(loc.base_path)
           text == text_path_of(loc.base_path)
       IN IF cmd.level = "Base"
          THEN /\ log' = log \o <<Event("read", bin), Event("read", text)>>
               /\ IF fs[text].kind = "absent" THEN Fail("Panic") /\ loc' = loc
                  ELSE /\ Goto("unrolled_setup")
                       /\ loc' = [loc EXCEPT
                             !.program = Some(<<fs[bin].val[1], fs[text].val[1]>>)]
          ELSE IF cmd.level = "RecursionUnrolled"
          THEN /\ Goto("unrolled_setup")
               /\ loc' = [loc EXCEPT !.program = Some(RECURSION_UNROLLED)]
               /\ log' = log
          ELSE /\ Fail("InvalidLevelCombination")
               /\ UNCHANGED <<log, loc>>
    /\ UNCHANGED <<fs, cmd, sources, calls, raw, parsed>>

\* generate_unrolled_vk, lines 99-127
UnrolledSetup ==
    /\ pc = "unrolled_setup"
    /\ \E panics \in BOOLEAN :
         IF cmd.level = "RecursionUnified"
         THEN Fail("InvalidLevelCombination") /\ UNCHANGED <<log, loc>>
         ELSE /\ log' = log \o <<Event("setup", <<>>), Event("layouts", <<>>)>>
              /\ IF panics THEN Fail("Panic") /\ loc' = loc
                 ELSE /\ Goto("unrolled_write")
                      /\ loc' = [loc EXCEPT
                            !.artifact = Some(unrolled_vk(loc.app_bin_hash[1], cmd.level,
                                                          loc.program[1]))]
    /\ UNCHANGED <<fs, cmd, sources, calls, raw, parsed>>

\* generate_unrolled_vk, lines 128-132
UnrolledEncodeWrite ==
    /\ pc = "unrolled_write"
    /\ \E encodes \in BOOLEAN, how \in WriteOutcomes :
         EncodeAndWrite(encode_unrolled_vk(loc.artifact[1]), encodes, how)
    /\ UNCHANGED <<cmd, sources, calls, raw, parsed>>

(***************************************************************************)
(* vk.rs: verify_proof                                                     *)
(***************************************************************************)
\* read_bincode::<T>: the file is read, then decoded; bytes left over after
\* the value only raise a warning.
Readable(file) == file.kind # "absent"
Decodes(file, wire) ==
    file.kind \in {"bincode", "bincode_trailing"} /\ file.val[1] = wire
read_bincode_ok(file, wire) == Readable(file) /\ Decodes(file, wire)

decode_proof(file) == file.val[2]
decode_unified_vk(file) == UnifiedVkFile(file.val[2], file.val[3], file.val[4])
decode_unrolled_vk(file) == UnrolledVkFile(file.val[2], file.val[3], file.val[4])

WithTrailing(file) == File("bincode_trailing", file.val)

\* proofs and VK files as the prove and generate-vk commands write them
SampleProofs ==
    {Proof("cpu", "Base", <<BinA.val, TextA.val>>, <<>>, ToWide(1))}
        \cup {Proof("gpu", l, <<"app">>, <<>>, ToWide(1)) : l \in Levels}

SampleVks ==
    { encode_unified_vk(unified_vk(Keccak256(BinA.val))),
      encode_unified_vk(unified_vk(Keccak256(ElfC.val))),
      encode_unrolled_vk(unrolled_vk(Keccak256(BinA.val), "Base", <<"binA", "textA">>)),
      encode_unrolled_vk(unrolled_vk(Keccak256(BinA.val), "RecursionUnrolled",
                                     RECURSION_UNROLLED)) }

ProofFiles ==
    {Absent, Garbage} \cup {encode_proof(p) : p \in SampleProofs}
        \cup {WithTrailing(encode_proof(p)) : p \in SampleProofs}
        \cup SampleVks

VkFiles ==
    {Absent, Garbage} \cup SampleVks \cup {WithTrailing(v) : v \in SampleVks}
        \cup {encode_proof(p) : p \in SampleProofs}

VerifyCmd(level) ==
    [NoCmd EXCEPT !.name = "verify_proof", !.entry = "cli", !.proof = ProofPath,
                  !.vk = VkPath, !.level = level]

\* main.rs: the VerifyProof command, lines 102-109
StartVerifyProof ==
    /\ pc = "idle"
    /\ \E proof \in ProofFiles, vk \in VkFiles, level \in Levels :
         Begin(VerifyCmd(level),
               [NoFiles EXCEPT ![ProofPath] = proof, ![VkPath] = vk],
               "verify_proof")

\* verify_proof, lines 141-143
VerifyReadProof ==
    /\ pc = "verify_proof"
    /\ log' = Append(log, Event("read", cmd.proof))
    /\ IF read_bincode_ok(fs[cmd.proof], "UnrolledProgramProof")
       THEN /\ Goto("verify_level")
            /\ loc' = [loc EXCEPT !.proof = Some(decode_proof(fs[cmd.proof]))]
       ELSE /\ Fail("DecodeProofFailed")
            /\ loc' = loc
    /\ UNCHANGED <<fs, cmd, sources, calls, raw, parsed>>

is_base_layer_not_unified(level) == level # "RecursionUnified"

\* verify_proof, line 159
is_base_layer(level) == level = "Base"

\* The call of a checking routine: which one, on what, with which flag.
Check(routine, proof, setup, layouts, flag) ==
    [routine |-> routine, proof |-> proof, setup |-> setup, layouts |-> layouts,
     is_base_layer |-> flag]

\* the stored hash is compared with the hash of the proved binary first
VerifyUnified_binds_hash ==
    /\ pc = "verify_level"
    /\ cmd.level = "RecursionUnified"
    /\ \E accepted \in BOOLEAN :
         IF ~read_bincode_ok(fs[cmd.vk], VkWire)
         THEN /\ Fail("DecodeVkFailed")
              /\ log' = Append(log, Event("read", cmd.vk))
              /\ loc' = loc
         ELSE LET vk_file == decode_unified_vk(fs[cmd.vk])
              IN IF vk_file.app_bin_hash # Keccak256(BinA.val)
                 THEN /\ Fail("VerificationFailed")
                      /\ log' = Append(log, Event("read", cmd.vk))
                      /\ loc' = [loc EXCEPT !.vk_file = Some(vk_file)]
                 ELSE /\ log' = log \o <<Event("read", cmd.vk),
                                         Event("verify_unified", <<>>)>>
                      /\ loc' = [loc EXCEPT
                            !.vk_file = Some(vk_file),
                            !.check = Some(Check("verify_proof_in_unified_layer",
                                                 loc.proof[1], vk_file.unified_setup,
                                                 vk_file.unified_layouts, FALSE))]
                      /\ Fail(IF accepted THEN "Ok" ELSE "VerificationFailed")
    /\ UNCHANGED <<fs, cmd, sources, calls, raw, parsed>>

\* verify_proof, lines 144-155: the RecursionUnified arm
VerifyUnified ==
    /\ pc = "verify_level"
    /\ cmd.level = "RecursionUnified"
    /\ \E accepted \in BOOLEAN :
         IF ~read_bincode_ok(fs[cmd.vk], VkWire)
         THEN /\ Fail("DecodeVkFailed")
              /\ log' = Append(log, Event("read", cmd.vk))
              /\ loc' = loc
         ELSE LET vk_file == decode_unified_vk(fs[cmd.vk])
              IN /\ log' = log \o <<Event("read", cmd.vk), Event("verify_unified", <<>>)>>
                 /\ loc' = [loc EXCEPT
                       !.vk_file = Some(vk_file),
                       !.check = Some(Check("verify_proof_in_unified_layer",
                                            loc.proof[1], vk_file.unified_setup,
                                            vk_file.unified_layouts, FALSE))]
                 /\ Fail(IF accepted THEN "Ok" ELSE "VerificationFailed")
    /\ UNCHANGED <<fs, cmd, sources, calls, raw, parsed>>

\* a VK file that does not decode is reported like a rejected proof
VerifyUnrolled_one_error ==
    /\ pc = "verify_level"
    /\ cmd.level \in {"Base", "RecursionUnrolled"}
    /\ \E accepted \in BOOLEAN :
         IF ~read_bincode_ok(fs[cmd.vk], VkWire)
         THEN /\ Fail("VerificationFailed")
              /\ log' = Append(log, Event("read", cmd.vk))
              /\ loc' = loc
         ELSE LET vk_file == decode_unrolled_vk(fs[cmd.vk])
              IN /\ log' = log \o <<Event("read", cmd.vk), Event("verify_unrolled", <<>>)>>
                 /\ loc' = [loc EXCEPT
                       !.vk_file = Some(vk_file),
                       !.check = Some(Check("verify_unrolled_layer_proof",
                                            loc.proof[1], vk_file.setup,
                                            vk_file.compiled_layouts,
                                            is_base_layer(cmd.level)))]
                 /\ Fail(IF accepted THEN "Ok" ELSE "VerificationFailed")
    /\ UNCHANGED <<fs, cmd, sources, calls, raw, parsed>>

\* verify_proof, lines 156-169: the Base | RecursionUnrolled arm
VerifyUnrolled ==
    /\ pc = "verify_level"
    /\ cmd.level \in {"Base", "RecursionUnrolled"}
    /\ \E accepted \in BOOLEAN :
         IF ~read_bincode_ok(fs[cmd.vk], VkWire)
         THEN /\ Fail("DecodeVkFailed")
              /\ log' = Append(log, Event("read", cmd.vk))
              /\ loc' = loc
         ELSE LET vk_file == decode_unrolled_vk(fs[cmd.vk])
              IN /\ log' = log \o <<Event("read", cmd.vk), Event("verify_unrolled", <<>>)>>
                 /\ loc' = [loc EXCEPT
                       !.vk_file = Some(vk_file),
                       !.check = Some(Check("verify_unrolled_layer_proof",
                                            loc.proof[1], vk_file.setup,
                                            vk_file.compiled_layouts,
                                            is_base_layer(cmd.level)))]
                 /\ Fail(IF accepted THEN "Ok" ELSE "VerificationFailed")
    /\ UNCHANGED <<fs, cmd, sources, calls, raw, parsed>>

Next ==
    \/ StartProve
    \/ MainParseInput
    \/ prove
    \/ CpuCheckLevel
    \/ CpuCheckPaths
    \/ CpuReadBinaries
    \/ CpuCyclesBound
    \/ CpuCheckCycles
    \/ CpuCheckRam
    \/ CpuProve
    \/ CpuEncodeWrite
    \/ GpuCreateProver
    \/ GpuProve
    \/ GpuEncodeWrite
    \/ StartGenerateVk
    \/ StartGenerateUnrolledVk
    \/ generate_vk
    \/ UnifiedReadAndHash
    \/ UnifiedSetup
    \/ UnifiedEncodeWrite
    \/ UnrolledReadAndHash
    \/ UnrolledLoadProgram
    \/ UnrolledSetup
    \/ UnrolledEncodeWrite
    \/ StartRunTranspiler
    \/ MainRunTranspiler
    \/ StartVerifyProof
    \/ VerifyReadProof
    \/ VerifyUnified
    \/ VerifyUnrolled
    \/ Exit

Spec == Init /\ [][Next]_vars

(***************************************************************************)
(* parse_input_words on its own                                            *)
(***************************************************************************)
\* the longest input holds MaxChunks eight-character chunks
MaxChunks == 2

ChunkDead == <<"D", "E", "A", "D", "B", "E", "E", "F">>
ChunkLower == <<"0", "0", "0", "0", "0", "0", "1", "a">>
ChunkPlus == <<"+", "0", "0", "0", "0", "0", "0", "1">>
ChunkMinus == <<"-", "0", "0", "0", "0", "0", "0", "1">>
ChunkNotHex == <<"0", "0", "0", "0", "0", "0", "0", "g">>
ChunkSpaced == <<"f", "f", "f", "f", " ", "0", "0", "\n", "0", "0">>
ChunkTwoByte == <<"E9", "0", "0", "0", "0", "0", "0">>
ChunkSplit == <<"0", "0", "0", "0", "0", "0", "0", "E9", "0", "0", "0", "0", "0", "0", "0">>

Chunks == {ChunkDead, ChunkLower, ChunkPlus, ChunkMinus, ChunkNotHex, ChunkSpaced,
           ChunkTwoByte, ChunkSplit}

Prefixes == {<<>>, <<"0", "x">>, <<" ", "0", " ", "x">>, <<"0", "X">>,
             <<"0", "x", "0", "x">>}

Tails == {<<>>, <<"A", "B", "C">>, <<" ", "\n", " ">>}

RECURSIVE Bodies(_)
Bodies(n) ==
    IF n = 0 THEN {<<>>}
    ELSE Bodies(n - 1) \cup {b \o c : b \in Bodies(n - 1), c \in Chunks}

ParseInputs == {p \o b \o t : p \in Prefixes, b \in Bodies(MaxChunks), t \in Tails}

InitParse ==
    /\ raw \in ParseInputs
    /\ parsed = Ok(<<>>)
    /\ pc = "parse_input_words"
    /\ fs = NoFiles
    /\ cmd = NoCmd
    /\ result = "none"
    /\ log = <<>>
    /\ loc = NoLoc
    /\ sources = <<>>
    /\ calls = <<>>

\* input.rs: parse_input_words, lines 8-30
ParseInputWords ==
    /\ pc = "parse_input_words"
    /\ parsed' = parse_text(raw)
    /\ pc' = "parsed"
    /\ UNCHANGED <<fs, cmd, result, log, loc, sources, calls, raw>>

NextParse == ParseInputWords

SpecParse == InitParse /\ [][NextParse]_vars

(***************************************************************************)
(* Properties                                                              *)
(***************************************************************************)
IsFsEvent(e) == e.op \in FsOps
Count(l, op) == Len(SelectSeq(l, LAMBDA e : e.op = op))
CallsOf(fn) == SelectSeq(calls, LAMBDA c : c.fn = fn)

CpuRecursion ==
    /\ cmd.name = "prove"
    /\ cmd.backend = "Cpu"
    /\ cmd.level \in {"RecursionUnrolled", "RecursionUnified"}

\* C1 as stated, for the invocations in which prove is called: a prove
\* invocation with the Cpu backend and a recursion level ends with the
\* unsupported-combination error, and no filesystem access has happened in
\* the invocation.
C1_NoFilesystemAccess ==
    (CpuRecursion /\ pc = "done" /\ result \notin {"ReadInputFailed", "InvalidFormat"}) =>
        /\ result = "UnsupportedCombination"
        /\ \A i \in 1..Len(log) : ~IsFsEvent(log[i])

\* C1, amended: a prove invocation with the Cpu backend and a recursion level
\* ends with the unsupported-combination error whenever main could read and
\* parse the input file (otherwise with that read or format error); the only
\* filesystem access of the invocation is main's read of the input file,
\* prove itself makes none, calls no routine and leaves the output as it was.
C1_OnlyInputRead ==
    CpuRecursion =>
        /\ pc = "done" =>
             result = (IF fs[cmd.input].kind # "text" THEN "ReadInputFailed"
                       ELSE IF ~parse_text(fs[cmd.input].val).ok THEN "InvalidFormat"
                       ELSE "UnsupportedCombination")
        /\ \A i \in 1..Len(log) :
             IsFsEvent(log[i]) => (i = 1 /\ log[i] = Event("read", cmd.input))
        /\ pc \in {"main_parse_input", "prove", "prove_cpu", "done"}
        /\ calls = <<>>
        /\ SameFile(fs[cmd.output], loc.out0)

C1_Witness ==
    /\ CpuRecursion
    /\ cmd.level = "RecursionUnified"
    /\ pc = "done"
    /\ result = "UnsupportedCombination"
    /\ log = <<Event("read", cmd.input)>>

UnifiedThroughUnrolled ==
    /\ cmd.name = "generate_vk"
    /\ cmd.entry = "direct"
    /\ cmd.level = "RecursionUnified"

\* C2 as stated, where the error is raised: when a unified VK asked of
\* generate_unrolled_vk fails with the invalid-level-combination error, no
\* file has been read and no hashing, setup or layout computation has been
\* done.
C2_FailsBeforeAnyWork ==
    (UnifiedThroughUnrolled /\ result = "InvalidLevelCombination") =>
        \A i \in 1..Len(log) : log[i].op \notin {"read", "keccak", "setup", "layouts"}

\* C2, amended: a unified VK asked of generate_unrolled_vk fails with the
\* invalid-level-combination error only after the .bin file has been read
\* and hashed (a path that is not UTF-8 or a .bin file that cannot be read
\* fails with that error instead), and always before any setup or layout
\* computation, encoding or write; generate_unified_vk takes no level and
\* never raises the invalid-level-combination error.
C2_FailsAfterHashing ==
    /\ UnifiedThroughUnrolled =>
         /\ pc = "done" =>
              result = (IF ~is_utf8(cmd.app_bin) THEN "NonUtf8Path"
                        ELSE IF fs[bin_path_of(strip_bin_suffix(cmd.app_bin))].kind = "absent"
                             THEN "ReadFailed"
                        ELSE "InvalidLevelCombination")
         /\ result = "InvalidLevelCombination" =>
              log = <<Event("read", bin_path_of(strip_bin_suffix(cmd.app_bin))),
                      Event("keccak", bin_path_of(strip_bin_suffix(cmd.app_bin)))>>
         /\ \A i \in 1..Len(log) :
              log[i].op \notin {"setup", "layouts", "encode", "write"}
         /\ SameFile(fs[cmd.output], loc.out0)
    /\ (cmd.name = "generate_vk" /\ cmd.entry = "cli" /\ cmd.level = "RecursionUnified")
         => result # "InvalidLevelCombination"

C2_Witness ==
    /\ UnifiedThroughUnrolled
    /\ pc = "done"
    /\ result = "InvalidLevelCombination"
    /\ Count(log, "keccak") = 1

Checked == loc.check # None

\* C4: whenever verify_proof calls a checking routine, the routine and the
\* is_base_layer flag are fixed by the level alone: the unified routine with
\* FALSE for RecursionUnified, the unrolled routine with TRUE for Base and
\* with FALSE for RecursionUnrolled.
C4_FlagFromLevel ==
    Checked =>
        /\ cmd.name = "verify_proof"
        /\ loc.check[1].routine =
             (IF cmd.level = "RecursionUnified" THEN "verify_proof_in_unified_layer"
              ELSE "verify_unrolled_layer_proof")
        /\ loc.check[1].is_base_layer = (cmd.level = "Base")

C4_Witness ==
    /\ Checked
    /\ cmd.level = "RecursionUnrolled"
    /\ loc.check[1].routine = "verify_unrolled_layer_proof"
    /\ loc.check[1].is_base_layer = FALSE
    /\ fs[cmd.vk].kind = "bincode_trailing"

CpuBase == cmd.name = "prove" /\ cmd.backend = "Cpu" /\ cmd.level = "Base"

\* C5: in prove on the Cpu backend at level Base a RAM bound equal to
\* ROM_BYTE_SIZE passes the RAM check, a bound one byte below it ends the
\* invocation with the invalid-RAM-bound error once the check is reached,
\* and without a RAM bound the proving routine is given 2^30 bytes.
C5_RamBound ==
    CpuBase =>
        /\ cmd.ram_bound = Some(ROM_BYTE_SIZE) => result # "InvalidRamBound"
        /\ (cmd.ram_bound = Some(ROM_BYTE_SIZE - 1) /\ loc.ram_bound # None)
             => (pc = "done" /\ result = "InvalidRamBound")
        /\ cmd.ram_bound = Some(ROM_BYTE_SIZE - 1) => CallsOf("cpu_prove") = <<>>
        /\ \A i \in 1..Len(calls) :
             calls[i].fn = "cpu_prove" =>
                 calls[i].ram = (IF cmd.ram_bound = None THEN Some(2 ^ 30)
                                 ELSE cmd.ram_bound)
        /\ result = "InvalidRamBound" =>
             (cmd.ram_bound # None /\ cmd.ram_bound[1] < ROM_BYTE_SIZE)

C5_Witness ==
    /\ CpuBase
    /\ cmd.ram_bound = Some(ROM_BYTE_SIZE)
    /\ CallsOf("cpu_prove") # <<>>
    /\ calls[Len(calls)].ram = Some(ROM_BYTE_SIZE)

\* C6: in prove on the Cpu backend at level Base an explicit cycle bound is
\* the bound used and no JIT run is made; without one exactly one JIT run
\* comes first and the bound is its cycles_executed; a final bound of zero
\* ends the invocation with the invalid-cycle-bound error and the proving
\* routine is never called with bound 0.
C6_CycleBound ==
    CpuBase =>
        /\ cmd.cycles # None =>
             /\ CallsOf("jit") = <<>>
             /\ Count(log, "jit_run") = 0
             /\ loc.cycles_bound \in {None, cmd.cycles}
        /\ (cmd.cycles = None /\ loc.cycles_bound # None) =>
             /\ Len(CallsOf("jit")) = 1
             /\ calls[1].fn = "jit"
             /\ loc.cycles_bound =
                  Some(ToWide((calls[1].returned - INITIAL_TIMESTAMP) \div TIMESTAMP_STEP))
        /\ Len(CallsOf("jit")) <= 1
        /\ \A i \in 1..Len(calls) :
             calls[i].fn = "cpu_prove" =>
                 /\ calls[i].cycles = loc.cycles_bound
                 /\ calls[i].cycles # Some(WideZero)
                 /\ cmd.cycles = None => i = 2
        /\ (loc.cycles_bound = Some(WideZero) /\ pc \notin {"cpu_check_cycles"}) =>
             (pc = "done" /\ result = "InvalidCyclesBound")

C6_Witness ==
    /\ CpuBase
    /\ cmd.cycles = None
    /\ Len(calls) = 2
    /\ calls[1].fn = "jit"
    /\ calls[2].fn = "cpu_prove"
    /\ calls[2].cycles = Some(ToWide(1))

\* the text parse_input_words works on, in the words of its contract:
\* white space removed, then one leading "0x" removed
Stripped(text) ==
    LET s == SelectSeq(text, LAMBDA c : c \notin {" ", "\n", "\t", "\r"})
    IN IF Len(s) >= 2 /\ SubSeq(s, 1, 2) = <<"0", "x">> THEN SubSeq(s, 3, Len(s)) ELSE s

HexDigit == {LowerHex[i] : i \in 1..16} \cup {UpperHex[i] : i \in 1..16}

\* the value of four hexadecimal digits
Hex4(d) == ((to_digit(d[1]) * 16 + to_digit(d[2])) * 16 + to_digit(d[3])) * 16
           + to_digit(d[4])

\* C7 as stated: on the stripped text, parse_input_words returns the empty
\* sequence when it is empty, fails when its length is not a multiple of 8
\* or when a character is not a hexadecimal digit, and otherwise returns one
\* word per 8-digit chunk, in order, with the chunk's base-16 value.
C7_OnlyHexDigits ==
    pc = "parsed" =>
        LET hex == Stripped(raw)
        IN IF hex = <<>> THEN parsed.ok /\ parsed.val = <<>>
           ELSE IF Len(hex) % 8 # 0
                   \/ \E i \in 1..Len(hex) : hex[i] \notin HexDigit
                THEN ~parsed.ok /\ parsed.err = "InvalidFormat"
           ELSE /\ parsed.ok
                /\ Len(parsed.val) = Len(hex) \div 8
                /\ \A w \in 1..Len(parsed.val) :
                     parsed.val[w] = <<Hex4(SubSeq(hex, 8 * w - 7, 8 * w - 4)),
                                       Hex4(SubSeq(hex, 8 * w - 3, 8 * w))>>

WritesOutput == cmd.name \in {"prove", "generate_vk"}

\* C8: in a prove or generate-vk invocation the output file is written at
\* most once, as the last step, after the proof or VK has been built and
\* encoded in memory; an invocation that fails at an earlier step leaves the
\* output file as it found it, and a successful one leaves the encoded value
\* there.
C8_WriteOnceAtEnd ==
    WritesOutput =>
        /\ Count(log, "write") <= 1
        /\ \A i \in 1..Len(log) :
             log[i].op = "write" =>
                 /\ log[i].path = cmd.output
                 /\ i = Len(log)
                 /\ i > 1 /\ log[i - 1].op = "encode"
                 /\ loc.artifact # None
                 /\ loc.encoded # None
                 /\ pc = "done"
        /\ Count(log, "write") = 0 => SameFile(fs[cmd.output], loc.out0)
        /\ (pc = "done" /\ result \notin {"Ok", "WriteFailed"}) =>
             (Count(log, "write") = 0 /\ SameFile(fs[cmd.output], loc.out0))
        /\ result = "Ok" =>
             (loc.encoded # None /\ SameFile(fs[cmd.output], loc.encoded[1]))

C8_Witness ==
    /\ WritesOutput
    /\ pc = "done"
    /\ result = "EncodeFailed"
    /\ loc.artifact # None
    /\ loc.out0.kind = "old"
    /\ fs[cmd.output].kind = "old"

ProofDecodes == read_bincode_ok(fs[cmd.proof], "UnrolledProgramProof")
VkDecodes == read_bincode_ok(fs[cmd.vk], VkWire)

\* C9: verify_proof reports a proof or VK file that cannot be read or decoded
\* as a decode error and a rejection by the checking routine as a
\* verification failure, never one as the other, and calls the checking
\* routine only after both files have decoded.
C9_DecodeVsVerification ==
    cmd.name = "verify_proof" =>
        /\ Checked => (loc.proof # None /\ loc.vk_file # None
                       /\ ProofDecodes /\ VkDecodes)
        /\ result = "VerificationFailed" => Checked
        /\ result \in {"DecodeProofFailed", "DecodeVkFailed"} =>
             (~Checked /\ Count(log, "verify_unified") + Count(log, "verify_unrolled") = 0)
        /\ pc = "done" =>
             IF ~ProofDecodes THEN result = "DecodeProofFailed"
             ELSE IF ~VkDecodes THEN result = "DecodeVkFailed"
             ELSE result \in {"Ok", "VerificationFailed"}

C9_Witness ==
    /\ cmd.name = "verify_proof"
    /\ cmd.level = "Base"
    /\ pc = "done"
    /\ result = "DecodeVkFailed"
    /\ fs[cmd.vk].kind = "garbage"
    /\ loc.proof # None

\* C10: within one invocation no source is handed to more than one execution
\* or proving call, and every call is handed a source that still holds all
\* of the caller's input words, in order.
C10_FreshSourcePerCall ==
    /\ \A i, j \in 1..Len(calls) : i # j => calls[i].src # calls[j].src
    /\ \A i \in 1..Len(calls) :
         /\ calls[i].received = loc.input_words
         /\ sources[calls[i].src].initial = loc.input_words
    /\ Len(sources) = Len(calls)
    /\ cmd.name = "prove" /\ parsed.ok /\ pc # "main_parse_input"
         => loc.input_words = parsed.val

C10_Witness ==
    /\ CpuBase
    /\ cmd.cycles = None
    /\ Len(calls) = 2
    /\ Len(loc.input_words) = 2
    /\ sources[calls[1].src].rest = <<>>
    /\ calls[2].received = loc.input_words

\* hashes a VK file may carry, and a VK file with its hash replaced
SampleHashes == {Keccak256(BinA.val), Keccak256(BinB.val), Keccak256(ElfC.val)}
WithHash(file, h) == [file EXCEPT !.val[2] = h]

VkFileGiven ==
    /\ cmd.name = "verify_proof"
    /\ fs[cmd.vk].kind \in {"bincode", "bincode_trailing"}
    /\ fs[cmd.vk].val[1] = VkWire

\* C11: the outcome of verify_proof does not depend on the app_bin_hash of
\* the VK file. Once verify_proof has ended on a VK file, the same VK file
\* with any other hash decodes as well, the error for an undecodable proof
\* is the same, and the checking routine was called with exactly the
\* arguments that the other file gives it (proof, setup, layouts, flag),
\* its verdict being the only source of acceptance or rejection.
C11_HashNotChecked ==
    (VkFileGiven /\ pc = "done") =>
        \A h \in SampleHashes :
            LET alt == WithHash(fs[cmd.vk], h)
                routine == IF cmd.level = "RecursionUnified"
                           THEN "verify_proof_in_unified_layer"
                           ELSE "verify_unrolled_layer_proof"
            IN /\ read_bincode_ok(alt, VkWire)
               /\ ~ProofDecodes => (result = "DecodeProofFailed" /\ loc.check = None)
               /\ ProofDecodes =>
                    /\ result \in {"Ok", "VerificationFailed"}
                    /\ loc.check = Some(Check(routine, fs[cmd.proof].val[2],
                                              alt.val[3], alt.val[4],
                                              cmd.level = "Base"))

C11_Witness ==
    /\ VkFileGiven
    /\ pc = "done"
    /\ result = "Ok"
    /\ loc.proof = Some(Proof("cpu", "Base", <<BinA.val, TextA.val>>, <<>>, ToWide(1)))
    /\ fs[cmd.vk].val[2] = Keccak256(ElfC.val)


CpuProveCmd == cmd.name = "prove" /\ cmd.backend = "Cpu"

ExpensiveWork == Count(log, "jit_run") + Count(log, "cpu_prove")

\* C12 as stated, for the rejection that needs nothing from the
\* cycle-estimation run: a RAM bound below the minimum is rejected by prove
\* on the Cpu backend before the cycle-estimation run or the proving routine
\* has started.
C12_RejectedBeforeExpensiveWork ==
    (CpuProveCmd /\ result = "InvalidRamBound") => ExpensiveWork = 0

C12_Order ==
    CpuProveCmd =>
        /\ Count(log, "jit_run") <= 1
        /\ Count(log, "cpu_prove") <= 1
        /\ result \in {"UnsupportedCombination", "BinaryNotFound", "TextNotFound"} =>
             (ExpensiveWork = 0 /\ calls = <<>> /\ Count(log, "read") = 1)
        /\ result \in {"InvalidCyclesBound", "InvalidRamBound"} =>
             /\ Count(log, "cpu_prove") = 0
             /\ Count(log, "jit_run") = (IF cmd.cycles = None THEN 1 ELSE 0)
             /\ Len(calls) = Count(log, "jit_run")

C12_NoRetry == (CpuProveCmd /\ pc = "done") => pc' = "idle"

\* C12: in prove on the Cpu backend the unsupported level, the missing .bin
\* and the missing .text are rejected before any cycle-estimation run or
\* proving routine has started; a zero cycle bound and a RAM bound below the
\* minimum are rejected before the proving routine starts, with no
\* cycle-estimation run before them when --cycles is given and after exactly
\* one completed cycle-estimation run when it is not; each of the two
\* routines runs at most once, and after a failure the invocation takes no
\* further step.
C12_RejectedBeforeProving == [](C12_Order) /\ [][C12_NoRetry]_vars

C12_Witness ==
    /\ CpuProveCmd
    /\ result = "InvalidRamBound"
    /\ cmd.cycles = None
    /\ Count(log, "jit_run") = 1


GenerateVkCli == cmd.name = "generate_vk" /\ cmd.entry = "cli"

VkWritten == GenerateVkCli /\ pc = "done" /\ result = "Ok"

EndsInBin(path) == path # <<>> /\ path[Len(path)] = ".bin"

\* the file whose bytes generate_vk hashes, for a level and a path argument
HashedPath(level, path) ==
    IF level = "RecursionUnified" \/ EndsInBin(path) THEN path
    ELSE Append(path, ".bin")

\* C13 as stated: at every level the app_bin_hash of the VK file that
\* generate_vk writes is the Keccak-256 digest of the bytes of the file at
\* the binary path argument.
C13_HashOfPathArgument ==
    VkWritten =>
        /\ fs[cmd.app_bin].kind = "bytes"
        /\ fs[cmd.output].val[2] = Keccak256(fs[cmd.app_bin].val)

\* C13: the app_bin_hash of the VK file that generate_vk writes is the
\* Keccak-256 digest of the bytes of a file on disk, never of an embedded
\* recursion binary: of the file at the path argument for RecursionUnified,
\* and of the file at the path argument with ".bin" appended unless it
\* already ends in ".bin" for Base and RecursionUnrolled. The hashed file
\* is the same at every level exactly for path arguments ending in ".bin".
C13_HashOfBinFile ==
    VkWritten =>
        LET hashed == HashedPath(cmd.level, cmd.app_bin)
        IN /\ fs[hashed].kind = "bytes"
           /\ fs[cmd.output].val[2] = Keccak256(fs[hashed].val)
           /\ loc.artifact[1].app_bin_hash = fs[cmd.output].val[2]
           /\ Count(log, "keccak") = 1
           /\ \E i \in 1..Len(log) : log[i] = Event("keccak", hashed)
           /\ EndsInBin(cmd.app_bin) =>
                \A l \in Levels : HashedPath(l, cmd.app_bin) = cmd.app_bin
           /\ ~EndsInBin(cmd.app_bin) =>
                HashedPath("Base", cmd.app_bin) # HashedPath("RecursionUnified", cmd.app_bin)

C13_Witness ==
    /\ VkWritten
    /\ cmd.level = "RecursionUnrolled"
    /\ cmd.app_bin = <<"app", ".elf">>
    /\ fs[cmd.app_bin] = ElfC
    /\ fs[cmd.output].val[2] = Keccak256(BinB.val)


RunTranspilerDone == cmd.name = "run_transpiler" /\ pc = "done"

\* the bound the command asks for, and whether it is at most 2^32 - 1
RequestedBound == IF cmd.cycles = None THEN DEFAULT_CYCLES ELSE cmd.cycles[1]
BoundFits == RequestedBound[1] <= Half - 1

\* C14: run_transpiler never fails because of the size of the cycle bound.
\* It fails only for a missing or misaligned binary or text file, whatever
\* the bound; when it runs, a bound of at most 2^32 - 1 reaches the JIT
\* engine unchanged and without a warning, a larger bound reaches it as
\* "no bound" after one warning, and the returned outcome has
\* reached_end = TRUE.
C14_BoundNeverFails ==
    RunTranspilerDone =>
        /\ result \in {"ReadInputFailed", "InvalidFormat", "BinaryNotFound",
                       "TextNotFound", "LengthNotMultipleOf4", "Ok"}
        /\ result = "Ok" =>
             /\ Len(calls) = 1
             /\ calls[1].fn = "jit"
             /\ calls[1].cycles = (IF BoundFits THEN Some(RequestedBound) ELSE None)
             /\ Count(log, "warn") = (IF BoundFits THEN 0 ELSE 1)
             /\ loc.outcome # None
             /\ loc.outcome[1].reached_end = TRUE
        /\ result # "Ok" => (calls = <<>> /\ Count(log, "warn") = 0)

C14_Witness ==
    /\ RunTranspilerDone
    /\ result = "Ok"
    /\ cmd.cycles = None
    /\ calls[1].cycles = None
    /\ Count(log, "warn") = 1
    /\ loc.outcome[1].reached_end


UnifiedShape == {"app_bin_hash", "unified_setup", "unified_layouts"}
UnrolledShape == {"app_bin_hash", "setup", "compiled_layouts"}
ShapeOf(level) == IF level = "RecursionUnified" THEN UnifiedShape ELSE UnrolledShape

\* the program and the machine type a level's setup is computed for
ProgramOf(level) ==
    IF level = "RecursionUnified"
    THEN <<"RECURSION_UNIFIED_BIN", "RECURSION_UNIFIED_TXT">>
    ELSE IF level = "RecursionUnrolled"
    THEN <<"RECURSION_UNROLLED_BIN", "RECURSION_UNROLLED_TXT">>
    ELSE <<fs[bin_path_of(strip_bin_suffix(cmd.app_bin))].val[1],
           fs[text_path_of(strip_bin_suffix(cmd.app_bin))].val[1]>>

MachineOf(level) ==
    IF level = "Base" THEN "IMStandardIsaConfigWithUnsignedMulDiv"
    ELSE "IWithoutByteAccessIsaConfigWithDelegation"

\* C15: the VK value generate_vk builds at a level has the shape that
\* verify_proof decodes at that level (UnifiedVkFile for RecursionUnified,
\* UnrolledVkFile for Base and RecursionUnrolled); its setup and layouts are
\* computed for the level's program (embedded unified, embedded unrolled,
\* the user's) and machine type (delegation ISA for the recursion levels,
\* standard unsigned-mul/div ISA for Base); and generate_vk through its
\* public entry point never ends with the invalid-level-combination error.
C15_ShapeFromLevel ==
    /\ GenerateVkCli => result # "InvalidLevelCombination"
    /\ (GenerateVkCli /\ loc.artifact # None) =>
         LET vk == loc.artifact[1]
             setup == IF cmd.level = "RecursionUnified" THEN vk.unified_setup
                      ELSE vk.setup
             layouts == IF cmd.level = "RecursionUnified" THEN vk.unified_layouts
                        ELSE vk.compiled_layouts
         IN /\ DOMAIN vk = ShapeOf(cmd.level)
            /\ setup.machine = MachineOf(cmd.level)
            /\ layouts.machine = MachineOf(cmd.level)
            /\ setup.binary = ProgramOf(cmd.level)[1]
            /\ setup.text = ProgramOf(cmd.level)[2]
            /\ layouts.binary = ProgramOf(cmd.level)[1]
            /\ setup.routine = (IF cmd.level = "RecursionUnified" THEN "unified"
                                ELSE "unrolled")
    /\ (cmd.name = "verify_proof" /\ loc.vk_file # None) =>
         DOMAIN loc.vk_file[1] = ShapeOf(cmd.level)

C15_Witness ==
    /\ VkWritten
    /\ cmd.level = "Base"
    /\ DOMAIN loc.artifact[1] = UnrolledShape
    /\ loc.artifact[1].setup.machine = "IMStandardIsaConfigWithUnsignedMulDiv"
    /\ loc.artifact[1].setup.binary = "binA"


GpuProveCmd == cmd.name = "prove" /\ cmd.backend = "Gpu"

\* C16: prove on the Gpu backend inspects neither the cycle bound nor the
\* RAM bound and checks no file for existence. Whatever the two bounds are,
\* it raises no invalid-bound, binary-not-found, text-not-found or
\* unsupported-combination error at any level; it runs no cycle estimation
\* and touches no file but the input it is given and the output it writes;
\* the prover is created from the path, the thread override and the level
\* and is handed no bound; and the proof it returns carries none of the
\* two bounds.
C16_GpuIgnoresBounds ==
    GpuProveCmd =>
        /\ result \notin {"InvalidCyclesBound", "InvalidRamBound", "BinaryNotFound",
                          "TextNotFound", "UnsupportedCombination",
                          "LengthNotMultipleOf4"}
        /\ Count(log, "exists") = 0
        /\ Count(log, "jit_run") = 0
        /\ \A i \in 1..Len(log) :
             /\ log[i].op = "read" => log[i].path = cmd.input
             /\ log[i].op = "write" => log[i].path = cmd.output
        /\ \A i \in 1..Len(calls) :
             /\ calls[i].fn = "gpu_prove"
             /\ calls[i].cycles = None
             /\ calls[i].ram = None
        /\ loc.cycles_bound = None
        /\ loc.ram_bound = None
        /\ loc.artifact # None =>
             /\ loc.artifact[1].by = "gpu"
             /\ loc.artifact[1].level = cmd.level
             /\ loc.artifact[1].program = strip_bin_suffix(cmd.app_bin)
             /\ loc.artifact[1].input = loc.input_words
             /\ loc.artifact[1].cycles = ToWide(calls[1].returned)
        /\ (pc = "done" /\ parsed.ok /\ fs[cmd.input].kind = "text"
                /\ is_utf8(cmd.app_bin)) =>
             result \in {"Panic", "EncodeFailed", "WriteFailed", "Ok"}

C16_Witness ==
    /\ GpuProveCmd
    /\ cmd.level = "RecursionUnified"
    /\ cmd.cycles = Some(WideZero)
    /\ cmd.ram_bound = Some(ROM_BYTE_SIZE - 1)
    /\ result = "Ok"


====
